---- MODULE Spec2Model ----
(***************************************************************************)
(* Finite-difference solution of the beam problem u'''' = -alpha           *)
(* (FD_beam_problem notebook).  The notebook is a sequence of code cells   *)
(* run top to bottom in one kernel; each cell is one action, the kernel    *)
(* namespace (alpha, N, dx, A, f, u, x_ref, u_ref, x) is the state.        *)
(*                                                                         *)
(* Floating-point numbers are modelled as exact rationals <<num, den>>     *)
(* with den > 0 and gcd(num, den) = 1; the non-finite floats are           *)
(* inf = <<1, 0>>, -inf = <<-1, 0>> and nan = <<0, 0>>.  Arrays are        *)
(* functions on 0..n-1, as numpy indexes them.  A name that is not bound   *)
(* yet holds <<>> (0 for the integer N).                                   *)
(***************************************************************************)
EXTENDS Integers, Sequences, FiniteSets, TLC

VARIABLES pc, err, alpha, N, dx, A, f, u, x_ref, u_ref, x

vars == <<pc, err, alpha, N, dx, A, f, u, x_ref, u_ref, x>>

\* Largest number of grid points explored.
MaxN == 7
\* Body forces explored: -MaxAlpha .. MaxAlpha.
MaxAlpha == 2

Alphas == (0 - MaxAlpha) .. MaxAlpha
GridSizes == 1 .. MaxN

----------------------------------------------------------------------------
(* Exact rational arithmetic standing for Python / numpy float arithmetic. *)

Abs(a) == IF a < 0 THEN 0 - a ELSE a

RECURSIVE GCD(_, _)
GCD(a, b) == IF b = 0 THEN a ELSE GCD(b, a % b)

RNorm(n, d) ==
    LET g == GCD(Abs(n), d)
    IN  IF n = 0 THEN <<0, 1>> ELSE <<n \div g, d \div g>>

Rat(n) == <<n, 1>>
Zero == <<0, 1>>
One == <<1, 1>>

\* the non-finite floats
Inf == <<1, 0>>
NegInf == <<-1, 0>>
NaN == <<0, 0>>
IsFinite(a) == a[2] # 0

RNeg(a) == <<0 - a[1], a[2]>>

\* a + b; inf + (-inf) and anything + nan are nan
RAdd(a, b) ==
    IF a[2] = 0 \/ b[2] = 0
    THEN IF a = NaN \/ b = NaN THEN NaN
         ELSE IF a[2] = 0 /\ b[2] = 0 THEN (IF a = b THEN a ELSE NaN)
         ELSE IF a[2] = 0 THEN a ELSE b
    ELSE LET g == GCD(a[2], b[2])
         IN  RNorm(a[1] * (b[2] \div g) + b[1] * (a[2] \div g), (a[2] \div g) * b[2])

RSub(a, b) == RAdd(a, RNeg(b))

\* a * b; inf * 0 and anything * nan are nan
RMul(a, b) ==
    IF a[2] = 0 \/ b[2] = 0
    THEN IF a[1] = 0 \/ b[1] = 0 THEN NaN
         ELSE IF (a[1] > 0) = (b[1] > 0) THEN Inf ELSE NegInf
    ELSE LET g1 == GCD(Abs(a[1]), b[2])
             g2 == GCD(Abs(b[1]), a[2])
         IN  IF a[1] = 0 \/ b[1] = 0 THEN Zero
             ELSE <<(a[1] \div g1) * (b[1] \div g2), (a[2] \div g2) * (b[2] \div g1)>>

\* a / b in float arithmetic (array division: no exception).  Division by a
\* zero gives inf or nan (the zero is taken as +0), by an infinity 0 or nan.
RDiv(a, b) ==
    IF a = NaN \/ b = NaN THEN NaN
    ELSE IF b[2] = 0 THEN (IF a[2] = 0 THEN NaN ELSE Zero)
    ELSE IF b[1] = 0 THEN (IF a[1] = 0 THEN NaN ELSE IF a[1] > 0 THEN Inf ELSE NegInf)
    ELSE IF b[1] > 0 THEN RMul(a, <<b[2], b[1]>>)
    ELSE RMul(a, <<0 - b[2], 0 - b[1]>>)

\* a ** k for a small literal exponent k >= 1
RECURSIVE RPow(_, _)
RPow(a, k) == IF k = 1 THEN a ELSE RMul(a, RPow(a, k - 1))

\* |a| < |b|
RAbsLess(a, b) == Abs(a[1]) * b[2] < Abs(b[1]) * a[2]

----------------------------------------------------------------------------
(* numpy helpers *)

\* np.zeros(n)
Zeros1(n) == [i \in 0 .. n - 1 |-> Zero]
\* mutant of Zeros2: the matrix allocated with np.ones
Zeros2_ones(n) == [i \in 0 .. n - 1 |-> [j \in 0 .. n - 1 |-> One]]

\* np.zeros((n, n))
Zeros2(n) == [i \in 0 .. n - 1 |-> Zeros1(n)]

\* Python slice bound k on an axis of length n: negative bounds count from
\* the end, and the result is clipped to 0..n.
SliceBound(k, n) ==
    LET s == IF k < 0 THEN k + n ELSE k
    IN  IF s < 0 THEN 0 ELSE IF s > n THEN n ELSE s

\* number of elements selected by start:stop on an axis of length n
SliceLen(start, stop, n) ==
    LET lo == SliceBound(start, n)
        hi == SliceBound(stop, n)
    IN  IF hi > lo THEN hi - lo ELSE 0

\* M[i, start:stop] = vals, for a slice whose length is Len(vals)
SetSlice(M, i, start, stop, vals, n) ==
    LET lo == SliceBound(start, n)
        hi == SliceBound(stop, n)
    IN  [M EXCEPT ![i] = [j \in 0 .. n - 1 |->
            IF lo <= j /\ j < hi THEN Rat(vals[j - lo + 1]) ELSE M[i][j]]]

\* An integer index i is valid on an axis of length n (none of the cells
\* uses a negative scalar index that numpy would wrap).
IndexOK(i, n) == 0 <= i /\ i < n

----------------------------------------------------------------------------
(* Cell 1: simulation parameters *)

\* dx = 1.0/(N-1)
Spacing(n) == RDiv(One, Rat(n - 1))

(* Cell 2: matrix, vector, interior equations *)

\* rows the loop "for i in range(2,N-2)" visits
InteriorRowSet(n) == 2 .. n - 3

\* rows the boundary cell writes: 0, 1, N-2, N-1
BoundaryRowSet(n) == {0, 1, n - 2, n - 1}

\* mutant of StencilRow: sign slip on the entry right of the diagonal
StencilRow_signSlip(M, i) ==
    [M EXCEPT ![i][i - 2] = Rat(1),
              ![i][i - 1] = Rat(-4),
              ![i][i]     = Rat(6),
              ![i][i + 1] = Rat(4),
              ![i][i + 2] = Rat(1)]

\* body of the loop "for i in range(2,N-2)" over A
StencilRow(M, i) ==
    [M EXCEPT ![i][i - 2] = Rat(1),
              ![i][i - 1] = Rat(-4),
              ![i][i]     = Rat(6),
              ![i][i + 1] = Rat(-4),
              ![i][i + 2] = Rat(1)]

\* mutant of InteriorFill: the loop stops one row early, range(2,N-3)
RECURSIVE InteriorFill_short(_, _, _)
InteriorFill_short(M, i, n) ==
    IF i >= n - 3 THEN M ELSE InteriorFill_short(StencilRow(M, i), i + 1, n)

\* for i in range(2,N-2): ... , entered at index i
RECURSIVE InteriorFill(_, _, _)
InteriorFill(M, i, n) ==
    IF i >= n - 2 THEN M ELSE InteriorFill(StencilRow(M, i), i + 1, n)

(* Cell 3: right-hand side in the interior *)

\* mutant of LoadEntry: wrong power of the spacing, -alpha*dx**3
LoadEntry_cube(a, h) == RMul(RNeg(a), RPow(h, 3))

\* mutant of LoadEntry: the product typed as a difference, -alpha - dx**4
LoadEntry_offset(a, h) == RSub(RNeg(a), RPow(h, 4))

\* mutant of LoadEntry: the minus sign dropped, alpha*dx**4
LoadEntry_unsigned(a, h) == RMul(a, RPow(h, 4))

\* mutant of LoadEntry: the load scaled as for a second-order equation,
\* -alpha*dx**2
LoadEntry_square(a, h) == RMul(RNeg(a), RPow(h, 2))

\* -alpha*dx**4
LoadEntry(a, h) == RMul(RNeg(a), RPow(h, 4))

\* for i in range(2,N-2): f[i] = -alpha*dx**4 , entered at index i
RECURSIVE LoadFill(_, _, _, _, _)
LoadFill(v, i, n, a, h) ==
    IF i >= n - 2 THEN v
    ELSE LoadFill([v EXCEPT ![i] = LoadEntry(a, h)], i + 1, n, a, h)

(* Cell 4: boundary conditions.  The cell is a sequence of assignments; an *)
(* assignment numpy rejects raises and leaves the earlier ones in place.   *)
(* s is the record [A, f, err] the statements thread through.              *)

\* A[i, start:stop] = vals
AssignSlice(s, i, start, stop, vals, n) ==
    IF s.err # "none" THEN s
    ELSE IF ~IndexOK(i, n) THEN [s EXCEPT !.err = "IndexError"]
    ELSE IF SliceLen(start, stop, n) # Len(vals) THEN [s EXCEPT !.err = "ValueError"]
    ELSE [s EXCEPT !.A = SetSlice(s.A, i, start, stop, vals, n)]

\* A[i, j] = v
AssignEntry(s, i, j, v, n) ==
    IF s.err # "none" THEN s
    ELSE IF ~IndexOK(i, n) \/ ~IndexOK(j, n) THEN [s EXCEPT !.err = "IndexError"]
    ELSE [s EXCEPT !.A[i][j] = Rat(v)]

\* f[i] = 0
AssignLoad(s, i, n) ==
    IF s.err # "none" THEN s
    ELSE IF ~IndexOK(i, n) THEN [s EXCEPT !.err = "IndexError"]
    ELSE [s EXCEPT !.f[i] = Zero]

\* mutant of NeumannLeft: sign slip, A[1,0:2] = [1,1]
NeumannLeft_signSlip(s, n) == AssignLoad(AssignSlice(s, 1, 0, 2, <<1, 1>>, n), 1, n)

\* mutant of NeumannLeft: slice off by one, A[1,1:3] = [1,-1]
NeumannLeft_shifted(s, n) == AssignLoad(AssignSlice(s, 1, 1, 3, <<1, -1>>, n), 1, n)

\* mutant of SecondDerivRight: sign slip, A[N-2,N-3:N] = [1,2,1]
SecondDerivRight_signSlip(s, n) ==
    AssignLoad(AssignSlice(s, n - 2, n - 3, n, <<1, 2, 1>>, n), n - 2, n)

\* mutant of ThirdDerivRight: the row index copied from the statement above,
\* A[N-2,N-4:N] = [-1,3,-3,1]
ThirdDerivRight_wrongRow(s, n) ==
    AssignLoad(AssignSlice(s, n - 2, n - 4, n, <<-1, 3, -3, 1>>, n), n - 1, n)

\* mutant of ThirdDerivRight: the load entry copied from an interior one,
\* f[N-1] = f[N-3]
ThirdDerivRight_copyLoad(s, n) ==
    LET t == AssignSlice(s, n - 1, n - 4, n, <<-1, 3, -3, 1>>, n)
    IN  IF t.err # "none" THEN t ELSE [t EXCEPT !.f[n - 1] = t.f[n - 3]]

\* mutant of DirichletLeft: the condition imposed on the value at x=1,
\* A[0,N-1] = 1
DirichletLeft_rightEnd(s, n) == AssignLoad(AssignEntry(s, 0, n - 1, 1, n), 0, n)

\* Dirichlet boundary condition for x=0
DirichletLeft(s, n) == AssignLoad(AssignEntry(s, 0, 0, 1, n), 0, n)

\* Neumann boundary condition for x=0
NeumannLeft(s, n) == AssignLoad(AssignSlice(s, 1, 0, 2, <<1, -1>>, n), 1, n)

\* d2u/dx2(1) = 0
SecondDerivRight(s, n) ==
    AssignLoad(AssignSlice(s, n - 2, n - 3, n, <<1, -2, 1>>, n), n - 2, n)

\* d3u/dx3(1) = 0
ThirdDerivRight(s, n) ==
    AssignLoad(AssignSlice(s, n - 1, n - 4, n, <<-1, 3, -3, 1>>, n), n - 1, n)

\* mutant of BoundaryRows: the four conditions imposed by elimination, the
\* boundary rows and the matching columns both replaced by identity ones
BoundaryRows_eliminated(M, v, n) ==
    LET B == {0, 1, n - 2, n - 1}
    IN  [A |-> [i \in 0 .. n - 1 |-> [j \in 0 .. n - 1 |->
                    IF i \in B \/ j \in B
                    THEN (IF i = j THEN One ELSE Zero)
                    ELSE M[i][j]]],
         f |-> [i \in 0 .. n - 1 |-> IF i \in B THEN Zero ELSE v[i]],
         err |-> "none"]

\* the whole cell
BoundaryRows(M, v, n) ==
    ThirdDerivRight(
        SecondDerivRight(
            NeumannLeft(
                DirichletLeft([A |-> M, f |-> v, err |-> "none"], n), n), n), n)

----------------------------------------------------------------------------
(* Cell 6: u = solve(A,f).  numpy.linalg.solve works on copies of its      *)
(* arguments, factors the matrix by Gaussian elimination with partial      *)
(* pivoting (LAPACK gesv) and raises LinAlgError when a pivot is exactly   *)
(* zero.                                                                   *)

\* first row at or below k whose entry in column k is largest in magnitude
PivotRow(M, k, n) ==
    CHOOSE r \in k .. n - 1 :
        \A q \in k .. n - 1 :
            /\ ~RAbsLess(M[r][k], M[q][k])
            /\ (q < r => RAbsLess(M[q][k], M[r][k]))

\* exchange entries i and j of a vector, or rows i and j of a matrix
SwapRows(M, i, j) == [M EXCEPT ![i] = M[j], ![j] = M[i]]

\* subtract multiples of row k from the rows below it
EliminateMatrix(M, k, n) ==
    [r \in 0 .. n - 1 |->
        IF r > k
        THEN [c \in 0 .. n - 1 |->
                RSub(M[r][c], RMul(RDiv(M[r][k], M[k][k]), M[k][c]))]
        ELSE M[r]]

\* the same row operations on the right-hand side
EliminateLoad(M, b, k, n) ==
    [r \in 0 .. n - 1 |->
        IF r > k THEN RSub(b[r], RMul(RDiv(M[r][k], M[k][k]), b[k])) ELSE b[r]]

\* mutant of Pivot: the right-hand side is not exchanged with the rows
Pivot_matrixOnly(M, b, k, p) == [M |-> SwapRows(M, k, p), b |-> b]

\* row exchange of step k (pivot row p) applied to matrix and right-hand side
Pivot(M, b, k, p) == [M |-> SwapRows(M, k, p), b |-> SwapRows(b, k, p)]

\* forward elimination from column k on; det accumulates the determinant
RECURSIVE Factor(_, _, _, _, _)
Factor(M, b, k, n, det) ==
    IF k = n THEN [M |-> M, b |-> b, singular |-> FALSE, det |-> det]
    ELSE LET p == PivotRow(M, k, n)
         IN  IF M[p][k] = Zero
             THEN [M |-> M, b |-> b, singular |-> TRUE, det |-> Zero]
             ELSE LET s == Pivot(M, b, k, p)
                      d == RMul(IF p = k THEN det ELSE RNeg(det), s.M[k][k])
                  IN  Factor(EliminateMatrix(s.M, k, n),
                             EliminateLoad(s.M, s.b, k, n), k + 1, n, d)

\* sum over c in from..n-1 of M[k][c] * sol[c]
RECURSIVE RowDot(_, _, _, _, _)
RowDot(M, sol, k, from, n) ==
    IF from >= n THEN Zero
    ELSE RAdd(RMul(M[k][from], sol[from]), RowDot(M, sol, k, from + 1, n))

\* back substitution for rows k, k-1, .., 0 of an upper triangular system
RECURSIVE BackSubst(_, _, _, _, _)
BackSubst(M, b, k, n, sol) ==
    IF k < 0 THEN sol
    ELSE BackSubst(M, b, k - 1, n,
            [sol EXCEPT ![k] = RDiv(RSub(b[k], RowDot(M, sol, k, k + 1, n)), M[k][k])])

\* mutant of Solve: the zero-pivot report of the factorisation is ignored
Solve_unchecked(M, b, n) ==
    LET lu == Factor(M, b, 0, n, One)
    IN  [u |-> BackSubst(lu.M, lu.b, n - 1, n, Zeros1(n)), err |-> "none"]

\* solve(A,f): [u, err]
Solve(M, b, n) ==
    LET lu == Factor(M, b, 0, n, One)
    IN  IF lu.singular THEN [u |-> <<>>, err |-> "LinAlgError"]
        ELSE [u |-> BackSubst(lu.M, lu.b, n - 1, n, Zeros1(n)), err |-> "none"]

----------------------------------------------------------------------------
(* Cell 7: analytical solution;  cell 9: grid for the plot *)

\* number of samples of the analytical curve
SampleCount == 30

\* mutant of Linspace: the end point left out (endpoint=False)
Linspace_noEndpoint(num) == [i \in 0 .. num - 1 |-> RDiv(Rat(i), Rat(num))]

\* np.linspace(0,1,num)
Linspace(num) ==
    [i \in 0 .. num - 1 |-> IF num = 1 THEN Zero ELSE RDiv(Rat(i), Rat(num - 1))]

\* mutant of RefValue: sign slip on the cubic term, + x/6.0
RefValue_signSlip(a, xr) ==
    RMul(RMul(RNeg(a), RPow(xr, 2)),
         RAdd(RAdd(RDiv(Rat(1), Rat(4)), RDiv(xr, Rat(6))),
              RDiv(RPow(xr, 2), Rat(24))))

\* -alpha*x**2 * (1.0/4.0 - x/6.0 + x**2/24.0)
RefValue(a, xr) ==
    RMul(RMul(RNeg(a), RPow(xr, 2)),
         RAdd(RSub(RDiv(Rat(1), Rat(4)), RDiv(xr, Rat(6))),
              RDiv(RPow(xr, 2), Rat(24))))

----------------------------------------------------------------------------
(* Cells 2-4 and cells 2-6 as functions of the parameters (n, a): what a   *)
(* run of the notebook with N = n, alpha = a computes.                     *)

Assemble(n, a) ==
    BoundaryRows(InteriorFill(Zeros2(n), 2, n),
                 LoadFill(Zeros1(n), 2, n, a, Spacing(n)), n)

AssembleAndSolve(n, a) ==
    LET s == Assemble(n, a) IN Solve(s.A, s.f, n)

----------------------------------------------------------------------------
(* The notebook run.  pc names the next cell; a cell that raises leaves    *)
(* pc on itself and records the exception in err, which ends the run.      *)

Init ==
    /\ pc = "params"
    /\ err = "none"
    /\ alpha = <<>>
    /\ N = 0
    /\ dx = <<>>
    /\ A = <<>>
    /\ f = <<>>
    /\ u = <<>>
    /\ x_ref = <<>>
    /\ u_ref = <<>>
    /\ x = <<>>

\* alpha = ..; N = ..; dx = 1.0/(N-1)
Parameters ==
    /\ pc = "params" /\ err = "none"
    /\ \E n \in GridSizes, a \in Alphas :
        /\ alpha' = Rat(a)
        /\ N' = n
        /\ IF n = 1
           THEN err' = "ZeroDivisionError" /\ dx' = dx /\ pc' = pc
           ELSE err' = err /\ dx' = Spacing(n) /\ pc' = "interior"
    /\ UNCHANGED <<A, f, u, x_ref, u_ref, x>>

\* mutant of InteriorEquations: the load vector is allocated only when the
\* name f is not bound yet
InteriorEquations_keepLoad ==
    /\ pc = "interior" /\ err = "none"
    /\ A' = InteriorFill(Zeros2(N), 2, N)
    /\ f' = IF f = <<>> THEN Zeros1(N) ELSE f
    /\ pc' = "load"
    /\ UNCHANGED <<err, alpha, N, dx, u, x_ref, u_ref, x>>

\* A = np.zeros((N,N)); f = np.zeros(N); interior stencil rows
InteriorEquations ==
    /\ pc = "interior" /\ err = "none"
    /\ A' = InteriorFill(Zeros2(N), 2, N)
    /\ f' = Zeros1(N)
    /\ pc' = "load"
    /\ UNCHANGED <<err, alpha, N, dx, u, x_ref, u_ref, x>>

\* mutant of InteriorLoad: the fourth power is stored back into dx
\* (dx = dx**4 before the loop)
InteriorLoad_rescaled ==
    /\ pc = "load" /\ err = "none"
    /\ dx' = RPow(dx, 4)
    /\ f' = LoadFill(f, 2, N, alpha, dx)
    /\ pc' = "boundary"
    /\ UNCHANGED <<err, alpha, N, A, u, x_ref, u_ref, x>>

\* interior right-hand side
InteriorLoad ==
    /\ pc = "load" /\ err = "none"
    /\ f' = LoadFill(f, 2, N, alpha, dx)
    /\ pc' = "boundary"
    /\ UNCHANGED <<err, alpha, N, dx, A, u, x_ref, u_ref, x>>

\* the four boundary rows
BoundaryConditions ==
    /\ pc = "boundary" /\ err = "none"
    /\ LET s == BoundaryRows(A, f, N)
       IN  /\ A' = s.A
           /\ f' = s.f
           /\ err' = s.err
           /\ pc' = IF s.err = "none" THEN "solve" ELSE pc
    /\ UNCHANGED <<alpha, N, dx, u, x_ref, u_ref, x>>

\* mutant of SolveSystem: the factorisation and the solution overwrite the
\* arguments (an in-place solve)
SolveSystem_inPlace ==
    /\ pc = "solve" /\ err = "none"
    /\ LET s == Solve(A, f, N)
       IN  /\ err' = s.err
           /\ u' = IF s.err = "none" THEN s.u ELSE u
           /\ f' = IF s.err = "none" THEN s.u ELSE f
           /\ A' = Factor(A, f, 0, N, One).M
           /\ pc' = IF s.err = "none" THEN "reference" ELSE pc
    /\ UNCHANGED <<alpha, N, dx, x_ref, u_ref, x>>

\* u = solve(A,f)
SolveSystem ==
    /\ pc = "solve" /\ err = "none"
    /\ LET s == Solve(A, f, N)
       IN  /\ err' = s.err
           /\ u' = IF s.err = "none" THEN s.u ELSE u
           /\ pc' = IF s.err = "none" THEN "reference" ELSE pc
    /\ UNCHANGED <<alpha, N, dx, A, f, x_ref, u_ref, x>>

\* mutant of AnalyticalSolution: the analytical values are assigned to u
\* instead of u_ref
AnalyticalSolution_overwrite ==
    /\ pc = "reference" /\ err = "none"
    /\ x_ref' = Linspace(SampleCount)
    /\ u' = [i \in 0 .. SampleCount - 1 |-> RefValue(alpha, Linspace(SampleCount)[i])]
    /\ pc' = "plot"
    /\ UNCHANGED <<err, alpha, N, dx, A, f, u_ref, x>>

\* x_ref, u_ref
AnalyticalSolution ==
    /\ pc = "reference" /\ err = "none"
    /\ x_ref' = Linspace(SampleCount)
    /\ u_ref' = [i \in 0 .. SampleCount - 1 |-> RefValue(alpha, Linspace(SampleCount)[i])]
    /\ pc' = "plot"
    /\ UNCHANGED <<err, alpha, N, dx, A, f, u, x>>

\* x = np.linspace(0,1,N); the plot itself draws and changes no name
PlotSolutions ==
    /\ pc = "plot" /\ err = "none"
    /\ x' = Linspace(N)
    /\ pc' = "done"
    /\ UNCHANGED <<err, alpha, N, dx, A, f, u, x_ref, u_ref>>

Next ==
    \/ Parameters
    \/ InteriorEquations
    \/ InteriorLoad
    \/ BoundaryConditions
    \/ SolveSystem
    \/ AnalyticalSolution
    \/ PlotSolutions

Spec == Init /\ [][Next]_vars

----------------------------------------------------------------------------
(* Assembling again in the same kernel: once the boundary cell has run,   *)
(* the cells are run from the top once more (with other parameters), with  *)
(* the A and f of the earlier assembly still bound.                        *)

RunAgain ==
    /\ pc = "solve" /\ err = "none"
    /\ pc' = "params"
    /\ UNCHANGED <<err, alpha, N, dx, A, f, u, x_ref, u_ref, x>>

RerunNext ==
    \/ Parameters
    \/ InteriorEquations
    \/ InteriorLoad
    \/ BoundaryConditions
    \/ RunAgain

RerunSpec == Init /\ [][RerunNext]_vars

----------------------------------------------------------------------------
(* solve on its own: the solve cell applied to drawn systems of dimension  *)
(* 2 and 3 with small integer entries, singular ones included.             *)

\* largest matrix entry drawn
MaxEntry == 1

SolveEntries(n) ==
    {Rat(k) : k \in (IF n = 2 THEN 0 - MaxEntry ELSE 0) .. MaxEntry}

SolveLoads(n) ==
    {[i \in 0 .. n - 1 |-> One], [i \in 0 .. n - 1 |-> IF i = n - 1 THEN One ELSE Zero]}

SolveInit ==
    /\ pc = "solve"
    /\ err = "none"
    /\ alpha = <<>>
    /\ dx = <<>>
    /\ N \in {2, 3}
    /\ A \in [0 .. N - 1 -> [0 .. N - 1 -> SolveEntries(N)]]
    /\ f \in SolveLoads(N)
    /\ u = <<>>
    /\ x_ref = <<>>
    /\ u_ref = <<>>
    /\ x = <<>>

SolveSpec == SolveInit /\ [][SolveSystem]_vars

----------------------------------------------------------------------------
(* The run with a body force beyond the float range: the literal typed in  *)
(* cell 1 is 1e400 (inf), -1e400 (-inf) or float("nan").                   *)

ExtremeParameters ==
    /\ pc = "params" /\ err = "none"
    /\ \E n \in GridSizes, a \in {Inf, NegInf, NaN} :
        /\ alpha' = a
        /\ N' = n
        /\ IF n = 1
           THEN err' = "ZeroDivisionError" /\ dx' = dx /\ pc' = pc
           ELSE err' = err /\ dx' = Spacing(n) /\ pc' = "interior"
    /\ UNCHANGED <<A, f, u, x_ref, u_ref, x>>

ExtremeNext == ExtremeParameters \/ Next

ExtremeSpec == Init /\ [][ExtremeNext]_vars

\* cells 2-4 have all run without raising
Assembled == pc \in {"solve", "reference", "plot", "done"}
\* cell 6 has run without raising
Solved == pc \in {"reference", "plot", "done"}

----------------------------------------------------------------------------
(* Properties of the assembled system *)

\* coefficient of the five-point stencil at offset d from the diagonal
ExpectedStencil(d) ==
    CASE d = -2 -> 1 [] d = -1 -> -4 [] d = 0 -> 6 [] d = 1 -> -4 [] d = 2 -> 1
      [] OTHER -> 0

\* the row that holds coefficients cs at columns from.. and zero elsewhere
ExpectedRow(from, cs, n) ==
    [j \in 0 .. n - 1 |->
        IF from <= j /\ j < from + Len(cs) THEN Rat(cs[j - from + 1]) ELSE Zero]

\* C1: for every N >= 5 and every body force, after assembly the matrix is
\* N x N and each interior row i, 2 <= i <= N-3, holds 1, -4, 6, -4, 1 at
\* columns i-2 .. i+2 and zero in every other column.
C1_InteriorRows ==
    (Assembled /\ N >= 5) =>
        /\ DOMAIN A = 0 .. N - 1
        /\ \A i \in 2 .. N - 3 :
            /\ DOMAIN A[i] = 0 .. N - 1
            /\ \A j \in 0 .. N - 1 : A[i][j] = Rat(ExpectedStencil(j - i))
            /\ Cardinality({j \in 0 .. N - 1 : A[i][j] # Zero}) = 5

C1_Witness == Assembled /\ N >= 6 /\ A[3][5] = One /\ A[3][0] = Zero

\* C2: for every N >= 5 and every body force, after assembly row 0 is 1 at
\* column 0 and zero elsewhere, row 1 is 1, -1 at columns 0, 1 and zero
\* elsewhere, and f[0] = f[1] = 0.
C2_LeftBoundaryRows ==
    (Assembled /\ N >= 5) =>
        /\ A[0] = ExpectedRow(0, <<1>>, N)
        /\ A[1] = ExpectedRow(0, <<1, -1>>, N)
        /\ f[0] = Zero
        /\ f[1] = Zero

C2_Witness == Assembled /\ N >= 5 /\ alpha # Zero /\ A[1][1] = Rat(-1) /\ A[0][0] = One

\* C3: for every N >= 5 and every body force, after assembly row N-2 is
\* 1, -2, 1 at columns N-3 .. N-1 and zero elsewhere, row N-1 is -1, 3, -3, 1
\* at columns N-4 .. N-1 and zero elsewhere, and f[N-2] = f[N-1] = 0.
C3_RightBoundaryRows ==
    (Assembled /\ N >= 5) =>
        /\ A[N - 2] = ExpectedRow(N - 3, <<1, -2, 1>>, N)
        /\ A[N - 1] = ExpectedRow(N - 4, <<-1, 3, -3, 1>>, N)
        /\ f[N - 2] = Zero
        /\ f[N - 1] = Zero

C3_Witness ==
    Assembled /\ N >= 5 /\ alpha # Zero /\ A[N - 1][N - 4] = Rat(-1) /\ A[N - 2][N - 2] = Rat(-2)

\* C4: for every N >= 5 and every body force b, the assembled load vector has
\* f[i] = -b / (N-1)^4 for the interior indices 2 <= i <= N-3 and f[i] = 0
\* for the indices 0, 1, N-2, N-1; for N = 5, b = 1: f[2] = -1/256.
C4_LoadVector ==
    (Assembled /\ N >= 5) =>
        /\ DOMAIN f = 0 .. N - 1
        /\ \A i \in 0 .. N - 1 :
            f[i] = IF 2 <= i /\ i <= N - 3
                   THEN RNorm(0 - alpha[1], alpha[2] * (N - 1) * (N - 1) * (N - 1) * (N - 1))
                   ELSE Zero
        /\ (N = 5 /\ alpha = One) => f = (0 :> Zero @@ 1 :> Zero @@ 2 :> <<-1, 256>>
                                          @@ 3 :> Zero @@ 4 :> Zero)

C4_Witness == Assembled /\ N = 5 /\ alpha = One /\ f[2] = <<-1, 256>>

\* the interior cell (the entry of assembly) has been run
AssemblyEntered == pc \in {"load", "boundary", "solve", "reference", "plot", "done"}

\* C5: assembling with N < 5 fails with InvalidDomainSize at assembly entry,
\* before any matrix or load entry is written: no matrix and no load vector
\* exist for such N.
C5_InvalidDomainSize ==
    (N < 5 /\ AssemblyEntered) =>
        /\ err = "InvalidDomainSize"
        /\ A = <<>>
        /\ f = <<>>

\* the vector whose entry i is the cubic c0 + c1*i + c2*i^2 + c3*i^3
CubicVector(c, n) ==
    [i \in 0 .. n - 1 |-> Rat(c[1] + c[2] * i + c[3] * i * i + c[4] * i * i * i)]

\* C6: for every N >= 5 the assembled matrix is non-singular: elimination
\* finds a nonzero pivot in every column, the determinant is not zero, and
\* no nonzero vector of the (difference-operator null space) family of
\* cubics is mapped to zero.
C6_NonSingular ==
    (Assembled /\ N >= 5) =>
        /\ LET lu == Factor(A, f, 0, N, One)
           IN  ~lu.singular /\ lu.det # Zero
        /\ \A c \in [1 .. 4 -> -1 .. 1] :
            (\A i \in 0 .. N - 1 : RowDot(A, CubicVector(c, N), i, 0, N) = Zero)
                => c = <<0, 0, 0, 0>>

C6_Witness == Assembled /\ N >= 5 /\ Factor(A, f, 0, N, One).det = Rat(-1)

\* C7: for every N >= 5 and every body force, the vector solve returns has
\* length N and satisfies every row equation: sum_j A[i,j]*u[j] = f[i].
C7_SolutionSatisfiesSystem ==
    (Solved /\ N >= 5) =>
        /\ DOMAIN u = 0 .. N - 1
        /\ \A i \in 0 .. N - 1 : RowDot(A, u, i, 0, N) = f[i]

C7_Witness == Solved /\ N >= 5 /\ alpha # Zero /\ u[N - 1] # Zero

\* C8: for every N >= 5 and every body force, the solution has u[0] = 0 and
\* u[1] = u[0].
C8_LeftEndClamped ==
    (Solved /\ N >= 5) => (u[0] = Zero /\ u[1] = u[0])

C8_Witness == Solved /\ N >= 5 /\ alpha # Zero /\ u[0] = Zero /\ u[2] # Zero

\* C9: for every N >= 5 and every body force b, assembling and solving with
\* body force 2b gives, entry by entry, 2 times the solution for b.
C9_Linearity ==
    (Solved /\ N >= 5) =>
        LET r == AssembleAndSolve(N, RMul(Rat(2), alpha))
        IN  /\ r.err = "none"
            /\ \A i \in 0 .. N - 1 : r.u[i] = RMul(Rat(2), u[i])

C9_Witness ==
    /\ Solved /\ N >= 5 /\ alpha # Zero
    /\ AssembleAndSolve(N, RMul(Rat(2), alpha)).u[N - 1] # u[N - 1]

\* C10: two assemblies with the same N >= 5 and different body forces have
\* the same matrix and the same load entries 0, 1, N-2, N-1; they differ only
\* in the interior load entries f[2 .. N-3].
C10_BoundaryIndependentOfForce ==
    (Assembled /\ N >= 5) =>
        \A b \in Alphas :
            LET r == Assemble(N, Rat(b))
            IN  Rat(b) # alpha =>
                /\ r.err = "none"
                /\ r.A = A
                /\ \A i \in {0, 1, N - 2, N - 1} : r.f[i] = f[i]
                /\ \A i \in 2 .. N - 3 : r.f[i] # f[i]

C10_Witness ==
    /\ Assembled /\ N >= 5
    /\ \E b \in Alphas :
        Rat(b) # alpha /\ Assemble(N, Rat(b)).f # f /\ Assemble(N, Rat(b)).A = A

----------------------------------------------------------------------------
(* Properties of the reference curve, the grid and the error *)

\* cell 7 has run
Referenced == pc \in {"plot", "done"}

\* -b * x^2 * (6 - 4x + x^2) / 24 at x = i / (num - 1), b an integer-valued
\* body force, as one fraction
ExpectedReference(b, i, num) ==
    RNorm(0 - b[1] * i * i * (6 * (num - 1) * (num - 1) - 4 * (num - 1) * i + i * i),
          b[2] * 24 * (num - 1) * (num - 1) * (num - 1) * (num - 1))

\* C11: the reference curve has SampleCount points whose x values are
\* i/(SampleCount-1), uniformly spaced from 0 to 1 whatever N is, with
\* u = -b * x^2 * (1/4 - x/6 + x^2/24) at each; it is 0 at x = 0 and -b/8
\* at x = 1.
C11_ReferenceCurve ==
    Referenced =>
        /\ DOMAIN x_ref = 0 .. SampleCount - 1
        /\ DOMAIN u_ref = 0 .. SampleCount - 1
        /\ x_ref[0] = Zero
        /\ x_ref[SampleCount - 1] = One
        /\ \A i \in 0 .. SampleCount - 2 :
            RSub(x_ref[i + 1], x_ref[i]) = RNorm(1, SampleCount - 1)
        /\ \A i \in 0 .. SampleCount - 1 :
            u_ref[i] = ExpectedReference(alpha, i, SampleCount)
        /\ u_ref[0] = Zero
        /\ u_ref[SampleCount - 1] = RNorm(0 - alpha[1], 8 * alpha[2])

C11_Witness ==
    Referenced /\ N >= 5 /\ alpha = One /\ u_ref[SampleCount - 1] = <<-1, 8>>

\* a < b, for finite a and b
RLess(a, b) == a[1] * b[2] < b[1] * a[2]

RAbsVal(a) == <<Abs(a[1]), a[2]>>

\* max over the indices from..n-1 of |sol[i] - u_analytic(grid[i])|
RECURSIVE MaxError(_, _, _, _, _)
MaxError(sol, b, grid, from, n) ==
    IF from >= n THEN Zero
    ELSE LET here == RAbsVal(RSub(sol[from], RefValue(b, grid[from])))
             rest == MaxError(sol, b, grid, from + 1, n)
         IN  IF RLess(here, rest) THEN rest ELSE here

C19_UniformGrid ==
    (pc = "done" /\ N >= 5) =>
        /\ DOMAIN x = 0 .. N - 1
        /\ x[0] = Zero
        /\ x[N - 1] = One
        /\ \A i \in 0 .. N - 2 : RSub(x[i + 1], x[i]) = RNorm(1, N - 1)
        /\ dx = RNorm(1, N - 1)
        /\ \A i \in 2 .. N - 3 :
            f[i] = RMul(RNeg(alpha), RPow(RSub(x[i + 1], x[i]), 4))

C19_Witness == pc = "done" /\ N >= 5 /\ x[N - 1] = One /\ x[1] = dx

\* position (i, j) is one the assembly writes a coefficient to
InPattern(i, j, n) ==
    \/ 2 <= i /\ i <= n - 3 /\ i - 2 <= j /\ j <= i + 2
    \/ i = 0 /\ j = 0
    \/ i = 1 /\ j <= 1
    \/ i = n - 2 /\ j >= n - 3
    \/ i = n - 1 /\ j >= n - 4

\* C20: after assembly every entry that is not an interior stencil entry or
\* a boundary coefficient is zero, and the matrix has exactly 5N - 10
\* nonzero entries.
C20_NonzeroCount ==
    (Assembled /\ N >= 5) =>
        /\ \A i \in 0 .. N - 1 : \A j \in 0 .. N - 1 :
            (A[i][j] # Zero) <=> InPattern(i, j, N)
        /\ Cardinality({p \in (0 .. N - 1) \X (0 .. N - 1) : A[p[1]][p[2]] # Zero})
            = 5 * N - 10

C20_Witness ==
    /\ Assembled /\ N = 6
    /\ Cardinality({p \in (0 .. N - 1) \X (0 .. N - 1) : A[p[1]][p[2]] # Zero}) = 20

----------------------------------------------------------------------------
(* Properties of the order of the run *)

\* C15: solve does not change its arguments: the step that runs
\* u = solve(A,f) leaves every entry of A and of f as it was.
C15_SolveKeepsInputs ==
    [][(pc = "solve" /\ err = "none") => (A' = A /\ f' = f)]_vars

C15_Witness ==
    /\ pc = "reference" /\ N >= 5 /\ alpha # Zero /\ u # <<>>
    /\ A = Assemble(N, alpha).A
    /\ f = Assemble(N, alpha).f

\* position of a cell in the notebook
CellRank(p) ==
    CASE p = "params" -> 0 [] p = "interior" -> 1 [] p = "load" -> 2
      [] p = "boundary" -> 3 [] p = "solve" -> 4 [] p = "reference" -> 5
      [] p = "plot" -> 6 [] p = "done" -> 7

\* all entries of row i of M are zero
ZeroRow(M, i, n) == \A j \in 0 .. n - 1 : M[i][j] = Zero

\* C17: the matrix and the load vector come into being in the same step,
\* the load all zero and the matrix zero outside the interior stencil rows;
\* the interior rows and interior load entries are filled before the
\* boundary rows are written; no step from solve on writes the matrix or
\* the load; the cells run in the order assemble, solve, validate; and the
\* solution vector is assigned once, by the solve step.
C17_RunOrder ==
    /\ []((A = <<>>) <=> (f = <<>>))
    /\ []((pc = "boundary" /\ err = "none" /\ N >= 5) =>
            /\ \A i \in 2 .. N - 3 : A[i][i] = Rat(6) /\ f[i] = LoadEntry(alpha, dx)
            /\ \A i \in {0, 1, N - 2, N - 1} : ZeroRow(A, i, N) /\ f[i] = Zero)
    /\ []((u # <<>>) => Solved)
    /\ []((u_ref # <<>>) => Solved)
    /\ [][/\ (A = <<>> /\ A' # <<>>) =>
                /\ f' = Zeros1(N)
                /\ \A i \in {0, 1, N - 2, N - 1} : IndexOK(i, N) => ZeroRow(A', i, N)
          /\ Assembled => (A' = A /\ f' = f)
          /\ (u # <<>>) => (u' = u)
          /\ (u' # u) => (pc = "solve" /\ pc' = "reference")
          /\ \/ CellRank(pc') = CellRank(pc) + 1 /\ err' = "none"
             \/ pc' = pc /\ err' # "none"
       ]_vars

C17_Witness ==
    /\ pc = "done" /\ N >= 5 /\ alpha # Zero
    /\ u # <<>> /\ u_ref # <<>> /\ A # <<>> /\ f # <<>>

\* C18 as stated: the grid exists before the matrix and the load vector do.
C18_GridCreatedFirst == (A # <<>> \/ f # <<>>) => (x # <<>>)

\* C18 as amended: the grid spacing dx is computed first, before the matrix
\* and the load vector exist, and is never written again; the coordinate
\* array x is created only by the last cell, after the solve and the
\* reference curve, and is never written after its creation.
C18_SpacingFirstGridLast ==
    /\ []((A # <<>> \/ f # <<>>) => (dx # <<>>))
    /\ []((x # <<>>) => (pc = "done" /\ u # <<>> /\ u_ref # <<>>))
    /\ [][/\ (dx # <<>>) => (dx' = dx)
          /\ (x # <<>>) => (x' = x)
          /\ (x' # x) => (pc = "plot" /\ A' = A /\ f' = f /\ u' = u)
       ]_vars

C18_Witness ==
    pc = "done" /\ N >= 5 /\ x # <<>> /\ dx = RNorm(1, N - 1) /\ A # <<>>

----------------------------------------------------------------------------
(* Properties of solve's failure modes *)

\* determinant of a 2 x 2 or 3 x 3 matrix of integer-valued entries
IntDet(M, n) ==
    LET m(i, j) == M[i][j][1]
    IN  IF n = 2 THEN m(0, 0) * m(1, 1) - m(0, 1) * m(1, 0)
        ELSE m(0, 0) * (m(1, 1) * m(2, 2) - m(1, 2) * m(2, 1))
           - m(0, 1) * (m(1, 0) * m(2, 2) - m(1, 2) * m(2, 0))
           + m(0, 2) * (m(1, 0) * m(2, 1) - m(1, 1) * m(2, 0))

C14_NonFiniteReported ==
    /\ Solved => \A i \in 0 .. N - 1 : IsFinite(u[i])
    /\ (pc = "solve" /\ err # "none") => err \in {"NumericOverflow", "LinAlgError"}

----------------------------------------------------------------------------
(* Assembly as a function of (N, b) *)

----------------------------------------------------------------------------
(* Shape of the assembled matrix *)

\* C21: for N >= 5 the assembled matrix is not symmetric, and a pair
\* A[i,j] # A[j,i] is found with i one of the boundary rows.
C21_NotSymmetric ==
    (Assembled /\ N >= 5) =>
        /\ \E i \in 0 .. N - 1 : \E j \in 0 .. N - 1 : A[i][j] # A[j][i]
        /\ \E i \in BoundaryRowSet(N) : \E j \in 0 .. N - 1 : A[i][j] # A[j][i]

\* the Neumann row at x=0 against the Dirichlet row: A[1,0] = 1, A[0,1] = 0
C21_Witness ==
    Assembled /\ N >= 5 /\ A[1][0] = One /\ A[0][1] = Zero /\ A[N - 1][N - 2] = Rat(-3)

\* C22: for N >= 5 the rows the interior loop fills are exactly 2..N-3, at
\* least one, and none of them is a boundary row; the boundary cell changes
\* exactly the rows 0, 1, N-2, N-1, which the loop had left all zero, so
\* every row is written by one step only, the two sets make up all rows,
\* and no row of the assembled matrix is all zero.
C22_RowsWrittenOnce ==
    /\ []((pc = "boundary" /\ err = "none" /\ N >= 5) =>
            /\ {i \in 0 .. N - 1 : ~ZeroRow(A, i, N)} = InteriorRowSet(N)
            /\ InteriorRowSet(N) # {}
            /\ InteriorRowSet(N) \cap BoundaryRowSet(N) = {}
            /\ InteriorRowSet(N) \cup BoundaryRowSet(N) = 0 .. N - 1)
    /\ [][(pc = "boundary" /\ N >= 5) =>
            /\ {i \in 0 .. N - 1 : A'[i] # A[i]} = BoundaryRowSet(N)
            /\ \A i \in BoundaryRowSet(N) : ZeroRow(A, i, N)
            /\ \A i \in InteriorRowSet(N) : A'[i] = A[i]]_vars
    /\ []((Assembled /\ N >= 5) => \A i \in 0 .. N - 1 : ~ZeroRow(A, i, N))

\* N = 6: two interior rows next to each other and the four boundary rows
C22_Witness ==
    /\ pc = "solve" /\ N = 6
    /\ A[2][0] = One /\ A[3][1] = One /\ A[1][2] = Zero /\ A[4][2] = Zero
    /\ \A i \in 0 .. 5 : ~ZeroRow(A, i, 6)

\* C23: for N >= 5 every nonzero entry of the assembled matrix has
\* -3 <= j - i <= 2; the one entry three places left of the diagonal is
\* A[N-1,N-4]; every diagonal entry is nonzero; and the nonzero entries of
\* rows 0, 1 and N-2 are at most two places from the diagonal.
C23_Bandwidth ==
    (Assembled /\ N >= 5) =>
        /\ \A i \in 0 .. N - 1 : \A j \in 0 .. N - 1 :
            (A[i][j] # Zero) => (0 - 3 <= j - i /\ j - i <= 2)
        /\ {p \in (0 .. N - 1) \X (0 .. N - 1) :
                A[p[1]][p[2]] # Zero /\ p[2] - p[1] = 0 - 3} = {<<N - 1, N - 4>>}
        /\ \A i \in 0 .. N - 1 : A[i][i] # Zero
        /\ \A i \in {0, 1, N - 2} : \A j \in 0 .. N - 1 :
            (A[i][j] # Zero) => (i - 2 <= j /\ j <= i + 2)

\* N = 6: the entry three places left of the diagonal, a full interior row
\* reaching two places right of it, and nothing further out
C23_Witness ==
    /\ Assembled /\ N = 6
    /\ A[5][2] = Rat(-1) /\ A[2][4] = One /\ A[2][5] = Zero /\ A[4][1] = Zero
    /\ A[5][5] = One

----------------------------------------------------------------------------
(* Shape of the discrete solution *)

\* C24: for N >= 5 and a body force b > 0 the solution has u[0] = u[1] = 0,
\* gets strictly smaller from index 1 on, and is strictly negative from
\* index 2 on.
C24_Monotone ==
    (Solved /\ N >= 5 /\ RLess(Zero, alpha)) =>
        /\ u[0] = Zero /\ u[1] = Zero
        /\ \A i \in 1 .. N - 2 : RLess(u[i + 1], u[i])
        /\ \A i \in 2 .. N - 1 : RLess(u[i], Zero)

C24_Witness ==
    /\ Solved /\ N = 7 /\ alpha = Rat(2)
    /\ u[1] = Zero /\ RLess(u[2], u[1]) /\ RLess(u[6], u[5])

\* C25: for N >= 5 and a body force b > 0 the reference value at x = 1 is
\* -b/8, and the last entry of the discrete solution lies strictly between
\* that value and zero.
C25_TipDeflection ==
    (Referenced /\ N >= 5 /\ RLess(Zero, alpha)) =>
        /\ x_ref[SampleCount - 1] = One
        /\ u_ref[SampleCount - 1] = RDiv(RNeg(alpha), Rat(8))
        /\ RLess(u_ref[SampleCount - 1], u[N - 1])
        /\ RLess(u[N - 1], Zero)

\* N = 5, b = 1: the tip deflection is -3/256, above -1/8
C25_Witness ==
    /\ Referenced /\ N = 5 /\ alpha = One
    /\ u[4] = <<-3, 256>> /\ u_ref[SampleCount - 1] = <<-1, 8>>

\* C26: for N >= 5 and body force b = 0 every entry of the assembled load
\* vector is 0 and every entry of the solution is 0.
C26_ZeroForce ==
    /\ (Assembled /\ N >= 5 /\ alpha = Zero) => (f = Zeros1(N))
    /\ (Solved /\ N >= 5 /\ alpha = Zero) => (u = Zeros1(N))

C26_Witness ==
    /\ Solved /\ N = 6 /\ alpha = Zero
    /\ f[2] = Zero /\ f[3] = Zero /\ u[5] = Zero /\ A[2][2] = Rat(6)

====
